---- MODULE Spec2Model ----
(***************************************************************************)
(* rootcause-opentelemetry: projecting a rootcause report onto             *)
(* OpenTelemetry span events.                                              *)
(*                                                                         *)
(* The model follows the exception-event builder of src/src/spec.rs,       *)
(* src/src/builder.rs, src/src/span.rs and src/src/zold/attachments.rs,    *)
(* and the two recursive recorders of src/src/event.rs and                 *)
(* src/src/event_builder.rs.                                               *)
(***************************************************************************)
EXTENDS Integers, Sequences, FiniteSets, TLC

VARIABLES
    report,   \* ReportWrapper.report: the report tree the builder holds
    status,   \* ReportWrapper.status
    spec,     \* ReportWrapper.spec: the ExceptionEventSpec being configured
    span,     \* the calls the span has received, in order
    pc,       \* "building" | "sent" | "added" | "recorded" | "built" |
              \* "panicked" | "recording"
    hist,     \* the builder calls made so far, in order
    prev,     \* the value of spec before the last builder call
    clock,    \* what SystemTime::now() returns
    wrapped,  \* "Report": a ReportWrapper; "Ok" | "Err": a Result around one
    returned, \* what send() / send_to() returned, <<>> before
    calls,    \* the calls a RecordErrorReport has made on its span, in order
    logs,     \* the log records emitted, in order
    curr_ctx  \* the span context of the current span, 0 when not valid

vars ==
    <<report, status, spec, span, pc, hist, prev, clock,
      wrapped, returned, calls, logs, curr_ctx>>

\* The number of builder calls chained before send().
MaxOps == 2

(***************************************************************************)
(* Option3<T> and Option<T>                                                *)
(***************************************************************************)
Default == <<"Default">>

Inferred == <<"Inferred">>

Specific(v) == <<"Specific", v>>

None == <<>>

Some(v) == <<v>>

IsSpecific(o) == o[1] = "Specific"

(***************************************************************************)
(* Reports (rootcause, external): a context with its type name and its     *)
(* formatted text, the attachments in insertion order, the child reports.  *)
(* An attachment has its inner type, its formatted text and, for a         *)
(* SystemTime, the time it holds.                                          *)
(***************************************************************************)
Att(ty, text, val) == [ty |-> ty, text |-> text, val |-> val]

Node(ct, cx, atts, kids) ==
    [ctx_type |-> ct, ctx_text |-> cx, atts |-> atts, kids |-> kids]

\* A leaf with no attachment.
RepBare == Node("Bare", "bare", <<>>, <<>>)

\* A root with one timestamp and one child without attachments.
RepDisk ==
    Node("IoError", "disk full", <<Att("SystemTime", "T1", 1)>>,
         <<Node("Retry", "retrying", <<>>, <<>>)>>)

\* A root with two children, the first of which has a child of its own.
RepTree ==
    Node("A", "a", <<Att("Backtrace", "X", 0), Att("SystemTime", "T2", 2)>>,
         <<Node("B", "b", <<Att("SystemTime", "T1", 1)>>,
                <<Node("D", "d", <<>>, <<>>)>>),
           Node("C", "c", <<Att("Str", "note", 0)>>, <<>>)>>)

\* A leaf with two timestamps, two backtraces, two locations, a key/value
\* and a plain string.
RepRich ==
    Node("Rich", "rich",
         <<Att("SystemTime", "T1", 1), Att("KeyValue", "k: v", 0),
           Att("Backtrace", "X", 0), Att("SystemTime", "T2", 2),
           Att("Location", "main.rs:1", 0), Att("Backtrace", "X2", 0),
           Att("Str", "note", 0), Att("Location", "lib.rs:2", 0)>>,
         <<>>)

\* A leaf with two timestamps and one backtrace.
RepTwice ==
    Node("Twice", "twice",
         <<Att("SystemTime", "T1", 1), Att("Backtrace", "X", 0),
           Att("SystemTime", "T2", 2)>>,
         <<>>)

Reports == {RepBare, RepDisk, RepTree, RepRich, RepTwice}

TypeIds == {"SystemTime", "Backtrace", "Str"}

(***************************************************************************)
(* EventAttachments: the digest of one report's attachments.               *)
(***************************************************************************)
EventAttachments_default ==
    [timestamp |-> None, backtrace |-> None, location |-> None,
     all |-> <<>>, keyvals |-> <<>>]

\* from_step, were a later attachment of a reserved type to replace the
\* one recorded before.
from_step_last_wins(res, at) ==
    LET r1 == IF at.ty = "SystemTime"
              THEN [res EXCEPT !.timestamp = Some(at.val)] ELSE res
        r2 == IF at.ty = "Location"
              THEN [r1 EXCEPT !.location = Some(at.text)] ELSE r1
        r3 == IF at.ty = "KeyValue"
              THEN [r2 EXCEPT !.keyvals = Append(@, at.text)] ELSE r2
        r4 == IF at.ty = "Backtrace"
              THEN [r3 EXCEPT !.backtrace = Some(at.text)] ELSE r3
    IN  [r4 EXCEPT !.all = Append(@, <<at.ty, at.text>>)]

\* One turn of the loop of EventAttachments::from.
from_step(res, at) ==
    LET r1 == IF at.ty = "SystemTime" /\ res.timestamp = None
              THEN [res EXCEPT !.timestamp = Some(at.val)] ELSE res
        r2 == IF at.ty = "Location" /\ r1.location = None
              THEN [r1 EXCEPT !.location = Some(at.text)] ELSE r1
        r3 == IF at.ty = "KeyValue"
              THEN [r2 EXCEPT !.keyvals = Append(@, at.text)] ELSE r2
        r4 == IF at.ty = "Backtrace" /\ r3.backtrace = None
              THEN [r3 EXCEPT !.backtrace = Some(at.text)] ELSE r3
    IN  [r4 EXCEPT !.all = Append(@, <<at.ty, at.text>>)]

RECURSIVE from_loop(_, _, _)
from_loop(atts, i, res) ==
    IF i > Len(atts) THEN res
    ELSE from_loop(atts, i + 1, from_step(res, atts[i]))

EventAttachments_from(rep) == from_loop(rep.atts, 1, EventAttachments_default)

RECURSIVE list_all_loop(_, _, _)
list_all_loop(all, i, res) ==
    IF i > Len(all) THEN res
    ELSE list_all_loop(all, i + 1, Append(res, all[i][2]))

\* list_all, were the backtrace that has its own attribute left out.
list_all_but_backtrace(self, res) ==
    list_all_loop(SelectSeq(self.all, LAMBDA e : Some(e[2]) # self.backtrace),
                  1, res)

list_all(self, res) == list_all_loop(self.all, 1, res)

\* seen = <<ts_seen, bt_seen, lt_seen>>
RECURSIVE list_smartly_loop(_, _, _, _)
list_smartly_loop(all, i, seen, res) ==
    IF i > Len(all) THEN res
    ELSE LET id == all[i][1]
             s  == all[i][2]
         IN  IF id = "SystemTime"
             THEN IF seen[1] THEN list_smartly_loop(all, i + 1, seen, Append(res, s))
                  ELSE list_smartly_loop(all, i + 1, <<TRUE, seen[2], seen[3]>>, res)
             ELSE IF id = "Backtrace"
             THEN IF seen[2] THEN list_smartly_loop(all, i + 1, seen, Append(res, s))
                  ELSE list_smartly_loop(all, i + 1, <<seen[1], TRUE, seen[3]>>, res)
             ELSE IF id = "Location"
             THEN IF seen[3] THEN list_smartly_loop(all, i + 1, seen, Append(res, s))
                  ELSE list_smartly_loop(all, i + 1, <<seen[1], seen[2], TRUE>>, res)
             ELSE IF id # "KeyValue"
             THEN list_smartly_loop(all, i + 1, seen, Append(res, s))
             ELSE list_smartly_loop(all, i + 1, seen, res)

\* list_smartly, were every SystemTime and every Backtrace left out, the
\* later ones as well as the first.
list_smartly_none_dedicated(self, res) ==
    list_all_loop(
        SelectSeq(self.all,
                  LAMBDA e : e[1] \notin {"SystemTime", "Backtrace",
                                          "Location", "KeyValue"}),
        1, res)

list_smartly(self, res) ==
    list_smartly_loop(self.all, 1, <<FALSE, FALSE, FALSE>>, res)

RECURSIVE list_by_type_id_loop(_, _, _, _)
list_by_type_id_loop(all, type_id, i, res) ==
    IF i > Len(all) THEN res
    ELSE list_by_type_id_loop(all, type_id, i + 1,
             IF all[i][1] = type_id THEN Append(res, all[i][2]) ELSE res)

list_by_type_id(self, type_id, res) ==
    list_by_type_id_loop(self.all, type_id, 1, res)

\* AttachmentAction::Custom(s): the element itself goes to the extras.
list_custom(s, res) == Append(res, s)

RECURSIVE list_into_vec_loop(_, _, _, _)
list_into_vec_loop(self, actions, i, res) ==
    IF i > Len(actions) THEN res
    ELSE LET at == actions[i]
             r  == CASE at[1] = "Smart"  -> list_smartly(self, res)
                     [] at[1] = "All"    -> list_all(self, res)
                     [] at[1] = "OfType" -> list_by_type_id(self, at[2], res)
                     [] OTHER            -> list_custom(at[2], res)
         IN  list_into_vec_loop(self, actions, i + 1, r)

\* list_into_vec, were a text listed by one action not listed again by a
\* later one.
RECURSIVE without_repeats(_, _, _)
without_repeats(texts, i, res) ==
    IF i > Len(texts) THEN res
    ELSE without_repeats(texts, i + 1,
             IF \E j \in 1..Len(res) : res[j] = texts[i] THEN res
             ELSE Append(res, texts[i]))

list_into_vec_once(self, actions, res) ==
    without_repeats(list_into_vec_loop(self, actions, 1, <<>>), 1, res)

list_into_vec(self, actions, res) == list_into_vec_loop(self, actions, 1, res)

(***************************************************************************)
(* ExceptionEventSpec and the ExceptionEventConfig calls on it.            *)
(***************************************************************************)
ExceptionEventSpec_new ==
    [ex_type        |-> Default,
     custom_message |-> None,
     timestamp      |-> Default,
     backtrace      |-> Default,
     escaped        |-> None,
     attachments    |-> <<>>,
     children       |-> Default]

escaped(self, has_escaped) == [self EXCEPT !.escaped = Some(has_escaped)]

ex_type(self) == [self EXCEPT !.ex_type = Inferred]

\* set_ex_type, were an inferred type kept against a later explicit one.
set_ex_type_unless_inferred(self, v) ==
    IF self.ex_type = Inferred THEN self
    ELSE [self EXCEPT !.ex_type = Specific(v)]

set_ex_type(self, v) == [self EXCEPT !.ex_type = Specific(v)]

backtrace(self) == [self EXCEPT !.backtrace = Inferred]

\* timestamped, were an explicit timestamp kept against a later inference.
timestamped_sticky(self) ==
    IF IsSpecific(self.timestamp) THEN self
    ELSE [self EXCEPT !.timestamp = Inferred]

timestamped(self) == [self EXCEPT !.timestamp = Inferred]

set_timestamp(self, systime) ==
    [self EXCEPT !.timestamp = Specific(Some(systime))]

timestamp_now(self) == [self EXCEPT !.timestamp = Specific(None)]

\* recurse, were a child spec set before kept.
recurse_unless_set(self) ==
    IF IsSpecific(self.children) THEN self
    ELSE [self EXCEPT !.children = Inferred]

recurse(self) == [self EXCEPT !.children = Inferred]

add_attacment(self, at) ==
    [self EXCEPT !.attachments = Append(@, <<"Custom", at>>)]

\* all_attachments, were All to take the place of the actions added before.
all_attachments_only(self) == [self EXCEPT !.attachments = << <<"All">> >>]

all_attachments(self) == [self EXCEPT !.attachments = Append(@, <<"All">>)]

attachments(self) == [self EXCEPT !.attachments = Append(@, <<"Smart">>)]

attachments_of_type_id(self, type_id) ==
    [self EXCEPT !.attachments = Append(@, <<"OfType", type_id>>)]

\* children, were the child spec to take the place of the builder's fields.
children_replacing(self, actions) ==
    [actions EXCEPT !.children = Specific(actions)]

children(self, actions) == [self EXCEPT !.children = Specific(actions)]

custom_message(self, msg) == [self EXCEPT !.custom_message = Some(msg)]

override_backtrace(self, bt) == [self EXCEPT !.backtrace = Specific(bt)]

with_defaults(self) == backtrace(timestamped(ex_type(self)))

ExceptionEventSpec_default == with_defaults(ExceptionEventSpec_new)

\* The loop of inject over self.attachments.
RECURSIVE inject_attachments(_, _, _)
inject_attachments(acts, i, other) ==
    IF i > Len(acts) THEN other
    ELSE LET at == acts[i]
             o  == CASE at[1] = "Smart"  -> attachments(other)
                     [] at[1] = "All"    -> all_attachments(other)
                     [] at[1] = "Custom" -> add_attacment(other, at[2])
                     [] OTHER            -> attachments_of_type_id(other, at[2])
         IN  inject_attachments(acts, i + 1, o)

\* inject, were other overwritten by self instead of merged with it.
inject_overwriting(self, other) == self

\* self.inject(other): the calls that replay self onto other.
inject(self, other) ==
    LET o1 == CASE self.ex_type = Default  -> other
                [] self.ex_type = Inferred -> ex_type(other)
                [] OTHER                   -> set_ex_type(other, self.ex_type[2])
        o2 == IF self.custom_message # None
              THEN custom_message(o1, self.custom_message[1]) ELSE o1
        o3 == CASE self.timestamp = Default        -> o2
                [] self.timestamp = Inferred       -> timestamped(o2)
                [] self.timestamp = Specific(None) -> timestamp_now(o2)
                [] OTHER -> set_timestamp(o2, self.timestamp[2][1])
        o4 == CASE self.backtrace = Default  -> o3
                [] self.backtrace = Inferred -> backtrace(o3)
                [] OTHER -> override_backtrace(o3, self.backtrace[2])
        o5 == IF self.escaped # None THEN escaped(o4, self.escaped[1]) ELSE o4
        o6 == inject_attachments(self.attachments, 1, o5)
    IN  CASE self.children = Default  -> o6
          [] self.children = Inferred -> recurse(o6)
          [] OTHER                    -> children(o6, self.children[2])

\* ExceptionEventConfigExt::config
config(self, s) == inject(s, self)

(***************************************************************************)
(* span.rs: one report and one spec make one call on the span.             *)
(***************************************************************************)
format_current_context(rep) == rep.ctx_text

\* attributes, were the message left out when no custom message is set.
attributes_message_if_custom(rep, atts, s) ==
    LET r1 == CASE s.ex_type = Default  -> <<>>
                [] s.ex_type = Inferred -> << <<"exception.type", "Report<Dynamic>">> >>
                [] OTHER                -> << <<"exception.type", s.ex_type[2]>> >>
        r2 == IF s.custom_message # None
              THEN Append(r1, <<"exception.message", s.custom_message[1]>>)
              ELSE r1
        r3 == CASE s.backtrace = Default -> r2
                [] s.backtrace = Inferred /\ atts.backtrace = None -> r2
                [] s.backtrace = Inferred ->
                       Append(r2, <<"exception.stacktrace", atts.backtrace[1]>>)
                [] OTHER -> Append(r2, <<"exception.stacktrace", s.backtrace[2]>>)
        r4 == IF s.escaped # None
              THEN Append(r3, <<"exception.escaped", s.escaped[1]>>) ELSE r3
        extras == list_into_vec(atts, s.attachments, <<>>)
    IN  IF Len(extras) > 0 THEN Append(r4, <<"exception.extras", extras>>) ELSE r4

\* attributes, were the backtrace of the attachments preferred to the one
\* set on the spec.
attributes_digest_first(rep, atts, s) ==
    LET r1 == CASE s.ex_type = Default  -> <<>>
                [] s.ex_type = Inferred -> << <<"exception.type", "Report<Dynamic>">> >>
                [] OTHER                -> << <<"exception.type", s.ex_type[2]>> >>
        r2 == IF s.custom_message # None
              THEN Append(r1, <<"exception.message", s.custom_message[1]>>)
              ELSE Append(r1, <<"exception.message", rep.ctx_text>>)
        r3 == CASE s.backtrace = Default -> r2
                [] atts.backtrace # None ->
                       Append(r2, <<"exception.stacktrace", atts.backtrace[1]>>)
                [] s.backtrace = Inferred -> r2
                [] OTHER -> Append(r2, <<"exception.stacktrace", s.backtrace[2]>>)
        r4 == IF s.escaped # None
              THEN Append(r3, <<"exception.escaped", s.escaped[1]>>) ELSE r3
        extras == list_into_vec(atts, s.attachments, <<>>)
    IN  IF Len(extras) > 0 THEN Append(r4, <<"exception.extras", extras>>) ELSE r4

attributes(rep, atts, s) ==
    LET r1 == CASE s.ex_type = Default  -> <<>>
                [] s.ex_type = Inferred -> << <<"exception.type", "Report<Dynamic>">> >>
                [] OTHER                -> << <<"exception.type", s.ex_type[2]>> >>
        r2 == IF s.custom_message # None
              THEN Append(r1, <<"exception.message", s.custom_message[1]>>)
              ELSE Append(r1, <<"exception.message", format_current_context(rep)>>)
        r3 == CASE s.backtrace = Default -> r2
                [] s.backtrace = Inferred /\ atts.backtrace = None -> r2
                [] s.backtrace = Inferred ->
                       Append(r2, <<"exception.stacktrace", atts.backtrace[1]>>)
                [] OTHER -> Append(r2, <<"exception.stacktrace", s.backtrace[2]>>)
        r4 == IF s.escaped # None
              THEN Append(r3, <<"exception.escaped", s.escaped[1]>>) ELSE r3
        extras == list_into_vec(atts, s.attachments, <<>>)
    IN  IF Len(extras) > 0 THEN Append(r4, <<"exception.extras", extras>>) ELSE r4

\* The calls a span takes: call, the event timestamp handed over (None for
\* add_event, where the span reads the clock itself), the attributes, the
\* status (set_status) and the time of the call.
add_event(attrs, now) ==
    [call |-> "add_event", name |-> "exception", ts |-> None,
     attrs |-> attrs, status |-> "Unset", at |-> now]

add_event_with_timestamp(st, attrs, now) ==
    [call |-> "add_event_with_timestamp", name |-> "exception", ts |-> Some(st),
     attrs |-> attrs, status |-> "Unset", at |-> now]

set_status(st, now) ==
    [call |-> "set_status", name |-> "", ts |-> None,
     attrs |-> <<>>, status |-> st, at |-> now]

\* impl SpanTraitExt for S: Span: the calls made on the span.
SpanTrait_add_exception_event(rep, s, now) ==
    LET atts == EventAttachments_from(rep)
        timestamp_spec == s.timestamp
        attrs == attributes(rep, atts, s)
    IN  CASE timestamp_spec = Default -> <<add_event(attrs, now)>>
          [] timestamp_spec = Inferred /\ atts.timestamp = None ->
                 <<add_event(attrs, now)>>
          [] timestamp_spec = Inferred ->
                 <<add_event_with_timestamp(atts.timestamp[1], attrs, now)>>
          [] timestamp_spec = Specific(None) ->
                 <<add_event_with_timestamp(now, attrs, now)>>
          [] OTHER ->
                 <<add_event_with_timestamp(timestamp_spec[2][1], attrs, now)>>

\* add_exception_event, were it to go on to the child reports whatever
\* spec.children says.
RECURSIVE add_exception_event_all(_, _, _)
RECURSIVE add_exception_event_kids(_, _, _, _)
add_exception_event_kids(kids, i, s, now) ==
    IF i > Len(kids) THEN <<>>
    ELSE add_exception_event_all(kids[i], s, now)
             \o add_exception_event_kids(kids, i + 1, s, now)

add_exception_event_all(rep, s, now) ==
    SpanTrait_add_exception_event(rep, s, now)
        \o add_exception_event_kids(rep.kids, 1, s, now)

\* add_exception_event, were the timestamp of the attachments taken
\* whatever the spec says.
add_exception_event_digest_time(rep, s, now) ==
    LET atts == EventAttachments_from(rep)
        attrs == attributes(rep, atts, s)
    IN  IF atts.timestamp = None THEN <<add_event(attrs, now)>>
        ELSE <<add_event_with_timestamp(atts.timestamp[1], attrs, now)>>

\* impl SpanRefExt for SpanRef: the calls made on the span.
SpanRef_add_exception_event(rep, s, now) ==
    LET atts == EventAttachments_from(rep)
        timestamp_spec == s.timestamp
        attrs == attributes(rep, atts, s)
    IN  CASE timestamp_spec = Default -> <<add_event(attrs, now)>>
          [] timestamp_spec = Inferred /\ atts.timestamp = None ->
                 <<add_event(attrs, now)>>
          [] timestamp_spec = Inferred ->
                 <<add_event_with_timestamp(atts.timestamp[1], attrs, now)>>
          [] timestamp_spec = Specific(None) ->
                 <<add_event_with_timestamp(now, attrs, now)>>
          [] OTHER ->
                 <<add_event_with_timestamp(timestamp_spec[2][1], attrs, now)>>

\* send, were the status set before the event is added.
send_status_first(rep, st, s, now) ==
    (IF st # "Unset" THEN <<set_status(st, now)>> ELSE <<>>)
        \o SpanTrait_add_exception_event(rep, s, now)

\* ReportWrapper::send: the event, then the status when one was set.
send(rep, st, s, now) ==
    SpanRef_add_exception_event(rep, s, now)
        \o (IF st # "Unset" THEN <<set_status(st, now)>> ELSE <<>>)

\* ReportWrapper::send_to
send_to(rep, st, s, now) ==
    SpanTrait_add_exception_event(rep, s, now)
        \o (IF st # "Unset" THEN <<set_status(st, now)>> ELSE <<>>)

(***************************************************************************)
(* event.rs: GranularExceptions records a report and its descendants on    *)
(* the current span.                                                       *)
(***************************************************************************)
\* AttachmentsExt::find_attachment: the first attachment of the type.
RECURSIVE find_attachment_loop(_, _, _)
find_attachment_loop(atts, ty, i) ==
    IF i > Len(atts) THEN None
    ELSE IF atts[i].ty = ty THEN Some(atts[i])
    ELSE find_attachment_loop(atts, ty, i + 1)

find_attachment(rep, ty) == find_attachment_loop(rep.atts, ty, 1)

\* Event::timestamp for a ReportRef
Event_timestamp(rep) ==
    LET a == find_attachment(rep, "SystemTime")
    IN  IF a = None THEN None ELSE Some(a[1].val)

GranularExceptions_attributes(rep) ==
    LET res == << <<"exception.type", rep.ctx_type>>,
                  <<"exception.message", format_current_context(rep)>> >>
        bt  == find_attachment(rep, "Backtrace")
        r1  == IF bt # None
               THEN Append(res, <<"exception.stacktrace", bt[1].text>>) ELSE res
        loc == find_attachment(rep, "Location")
    IN  IF loc # None THEN Append(r1, <<"exception.location", loc[1].text>>) ELSE r1

\* SpanExt::record_event
record_event(ts, attrs, now) ==
    IF ts # None THEN add_event_with_timestamp(ts[1], attrs, now)
    ELSE add_event(attrs, now)

\* record_with_current_span, were the report's own event recorded before
\* its children's.
RECURSIVE record_parent_first(_, _)
RECURSIVE record_parent_first_kids(_, _, _)
record_parent_first_kids(kids, i, now) ==
    IF i > Len(kids) THEN <<>>
    ELSE record_parent_first(kids[i], now)
             \o record_parent_first_kids(kids, i + 1, now)

record_parent_first(rep, now) ==
    <<record_event(Event_timestamp(rep), GranularExceptions_attributes(rep), now)>>
        \o record_parent_first_kids(rep.kids, 1, now)

\* GranularExceptions::record_with_current_span: the calls made on the span.
RECURSIVE record_with_current_span(_, _)
RECURSIVE record_children(_, _, _)
record_children(kids, i, now) ==
    IF i > Len(kids) THEN <<>>
    ELSE record_with_current_span(kids[i], now) \o record_children(kids, i + 1, now)

record_with_current_span(rep, now) ==
    record_children(rep.kids, 1, now)
        \o <<record_event(Event_timestamp(rep),
                          GranularExceptions_attributes(rep), now)>>

(***************************************************************************)
(* event_builder.rs: EventConfig::build collects the events of a report,   *)
(* EventBuilder::send puts them on the current span.  A recursor is a pair *)
(* (the sub-reports to visit, the configuration for each); "children" is   *)
(* the one that visits the child reports with the same configuration.      *)
(***************************************************************************)
EventConfig_new == [recursors |-> <<>>]

default_find_backtrace(rep) ==
    LET bt  == find_attachment(rep, "Backtrace")
        loc == find_attachment(rep, "Location")
    IN  IF bt # None THEN Some(bt[1].text)
        ELSE IF loc # None THEN Some(loc[1].text) ELSE None

find_sent_to(rep) == find_attachment(rep, "SentTo")

\* The event of rep itself: <<>> when it is not pushed.  c is the name of
\* the static context type C of the builder.
build_this(c, rep) ==
    LET back == default_find_backtrace(rep)
        a1 == << <<"exception.message", format_current_context(rep)>>,
                 <<"exception.type", c>> >>
        a2 == IF back # None THEN Append(a1, <<"exception.stacktrace", back[1]>>)
              ELSE a1
        ok == find_sent_to(rep) = None
    IN  IF ok THEN <<[timestamp |-> Event_timestamp(rep), attributes |-> a2]>>
        ELSE <<>>

RECURSIVE build(_, _, _, _)
RECURSIVE build_subs(_, _, _, _, _)
RECURSIVE build_recursors(_, _, _, _, _)
build_subs(self, c, subs, j, res) ==
    IF j > Len(subs) THEN res
    ELSE build_subs(self, c, subs, j + 1, build(self, c, subs[j], res))

build_recursors(self, c, rep, i, res) ==
    IF i > Len(self.recursors) THEN res
    ELSE build_recursors(self, c, rep, i + 1,
                         build_subs(self, c, rep.kids, 1, res))

build(self, c, rep, res) ==
    build_recursors(self, c, rep, 1, res) \o build_this(c, rep)

RECURSIVE EventBuilder_emit(_, _, _)
EventBuilder_emit(evs, i, now) ==
    IF i > Len(evs) THEN <<>>
    ELSE <<record_event(evs[i].timestamp, evs[i].attributes, now)>>
             \o EventBuilder_emit(evs, i + 1, now)

\* EventBuilder::send: the calls made on the span.
EventBuilder_send(cfg, rep, now) ==
    EventBuilder_emit(build(cfg, rep.ctx_type, rep, <<>>), 1, now)

(***************************************************************************)
(* zold/span.rs: the earlier add_exception_event.  Its spec has three more *)
(* fields, location, attributes and extra_attributes, and no escaped.      *)
(***************************************************************************)
zold_ExceptionEventSpec(s, loc, attrs, extra) ==
    [ex_type          |-> s.ex_type,
     custom_message   |-> s.custom_message,
     location         |-> loc,
     timestamp        |-> s.timestamp,
     backtrace        |-> s.backtrace,
     attachments      |-> s.attachments,
     attributes       |-> attrs,
     extra_attributes |-> extra,
     children         |-> s.children]

RECURSIVE zold_push_keyvals(_, _, _)
zold_push_keyvals(keyvals, i, res) ==
    IF i > Len(keyvals) THEN res
    ELSE zold_push_keyvals(keyvals, i + 1, Append(res, <<"keyvalue", keyvals[i]>>))

zold_attributes(rep, atts, s) ==
    LET r1 == CASE s.ex_type = Default  -> <<>>
                [] s.ex_type = Inferred -> << <<"exception.type", "Report<Dynamic>">> >>
                [] OTHER                -> << <<"exception.type", s.ex_type[2]>> >>
        r2 == IF s.custom_message # None
              THEN Append(r1, <<"exception.message", s.custom_message[1]>>)
              ELSE Append(r1, <<"exception.message", format_current_context(rep)>>)
        r3 == CASE s.backtrace = Default -> r2
                [] s.backtrace = Inferred /\ atts.backtrace = None -> r2
                [] s.backtrace = Inferred ->
                       Append(r2, <<"exception.stacktrace", atts.backtrace[1]>>)
                [] OTHER -> Append(r2, <<"exception.stacktrace", s.backtrace[2]>>)
        extras == list_into_vec(atts, s.attachments, <<>>)
        r4 == IF Len(extras) > 0 THEN Append(r3, <<"exception.extras", extras>>)
              ELSE r3
        r5 == CASE s.location = Default -> r4
                [] s.location = Inferred /\ atts.location = None -> r4
                [] s.location = Inferred ->
                       Append(r4, <<"exception.origin", atts.location[1]>>)
                [] OTHER -> Append(r4, <<"exception.origin", s.location[2]>>)
        r6 == IF s.attributes THEN zold_push_keyvals(atts.keyvals, 1, r5) ELSE r5
    IN  r6 \o s.extra_attributes

\* impl SpanTraitExt for S: Span, in zold/span.rs
zold_SpanTrait_add_exception_event(rep, s, now) ==
    LET atts == EventAttachments_from(rep)
        timestamp_spec == s.timestamp
        attrs == zold_attributes(rep, atts, s)
    IN  CASE timestamp_spec = Default -> <<add_event(attrs, now)>>
          [] timestamp_spec = Inferred /\ atts.timestamp = None ->
                 <<add_event(attrs, now)>>
          [] timestamp_spec = Inferred ->
                 <<add_event_with_timestamp(atts.timestamp[1], attrs, now)>>
          [] timestamp_spec = Specific(None) ->
                 <<add_event_with_timestamp(now, attrs, now)>>
          [] OTHER ->
                 <<add_event_with_timestamp(timestamp_spec[2][1], attrs, now)>>

\* The SpanRef one of zold/span.rs, were its joined arm to take the
\* timestamp of the attachments for a set timestamp too.
zold_add_exception_event_joined(rep, s, now) ==
    LET atts == EventAttachments_from(rep)
        timestamp_spec == s.timestamp
        attrs == zold_attributes(rep, atts, s)
    IN  CASE timestamp_spec = Default -> <<add_event(attrs, now)>>
          [] timestamp_spec = Inferred /\ atts.timestamp = None ->
                 <<add_event(attrs, now)>>
          [] timestamp_spec = Specific(None) ->
                 <<add_event_with_timestamp(now, attrs, now)>>
          [] atts.timestamp # None ->
                 <<add_event_with_timestamp(atts.timestamp[1], attrs, now)>>
          [] OTHER ->
                 <<add_event_with_timestamp(timestamp_spec[2][1], attrs, now)>>

\* impl SpanRefExt for SpanRef, in zold/span.rs: the arms of the match are
\* in another order, Inferred with a timestamp and Specific(Some(st))
\* joined in the last one.
zold_SpanRef_add_exception_event(rep, s, now) ==
    LET atts == EventAttachments_from(rep)
        timestamp_spec == s.timestamp
        attrs == zold_attributes(rep, atts, s)
    IN  CASE timestamp_spec = Default -> <<add_event(attrs, now)>>
          [] timestamp_spec = Inferred /\ atts.timestamp = None ->
                 <<add_event(attrs, now)>>
          [] timestamp_spec = Specific(None) ->
                 <<add_event_with_timestamp(now, attrs, now)>>
          [] timestamp_spec = Inferred ->
                 <<add_event_with_timestamp(atts.timestamp[1], attrs, now)>>
          [] OTHER ->
                 <<add_event_with_timestamp(timestamp_spec[2][1], attrs, now)>>

(***************************************************************************)
(* utilities.rs: what span_event.rs and log_event.rs read from a report.   *)
(***************************************************************************)
\* Display of the whole report (rootcause, external)
Report_to_string(rep) == <<"report", rep.ctx_text>>

attributes_brief(rep) ==
    << <<"exception.type", rep.ctx_type>>,
       <<"exception.message", format_current_context(rep)>> >>

utilities_attributes(rep) ==
    << <<"exception.type", rep.ctx_type>>,
       <<"exception.message", format_current_context(rep)>>,
       <<"exception.stacktrace", Report_to_string(rep)>> >>

\* timestamp, were the clock always taken.
timestamp_always_now(rep, now) == now

\* timestamp(rep): the first SystemTime attachment, or now
timestamp(rep, now) ==
    LET a == find_attachment(rep, "SystemTime")
    IN  IF a # None THEN a[1].val ELSE now

\* ReportRef::iter_reports (rootcause, external): the report, then its
\* descendants.
RECURSIVE iter_reports(_)
RECURSIVE iter_reports_kids(_, _)
iter_reports_kids(kids, i) ==
    IF i > Len(kids) THEN <<>>
    ELSE iter_reports(kids[i]) \o iter_reports_kids(kids, i + 1)

iter_reports(rep) == <<rep>> \o iter_reports_kids(rep.kids, 1)

(***************************************************************************)
(* span_event.rs: RecordErrorReport makes its calls on a SpanRef or on a   *)
(* Span through SpanIsh.  A call is kept with its name, the timestamp,     *)
(* the attributes, the span context (add_link) and the description         *)
(* (set_status) it was given.                                              *)
(***************************************************************************)
SpanCall(call, ts, attrs, ctx, desc) ==
    [call |-> call, ts |-> ts, attrs |-> attrs, ctx |-> ctx, desc |-> desc]

SpanIsh_set_attributes(sp, attrs) ==
    Append(sp, SpanCall("set_attributes", None, attrs, None, ""))

SpanIsh_set_status(sp, desc) ==
    Append(sp, SpanCall("set_status", None, <<>>, None, desc))

SpanIsh_add_link(sp, span_context, attrs) ==
    Append(sp, SpanCall("add_link", None, attrs, Some(span_context), ""))

\* add_event_with_timestamp, were a call on a span that was ended dropped.
add_event_with_timestamp_unless_ended(sp, ts, attrs) ==
    IF \E i \in 1..Len(sp) : sp[i].call = "end_with_timestamp" THEN sp
    ELSE Append(sp, SpanCall("add_event_with_timestamp", Some(ts), attrs, None, ""))

SpanIsh_add_event_with_timestamp(sp, ts, attrs) ==
    Append(sp, SpanCall("add_event_with_timestamp", Some(ts), attrs, None, ""))

SpanIsh_end_with_timestamp(sp, ts) ==
    Append(sp, SpanCall("end_with_timestamp", Some(ts), <<>>, None, ""))

as_event(sp, rep, now) ==
    SpanIsh_add_event_with_timestamp(sp, timestamp(rep, now),
                                     utilities_attributes(rep))

as_event_brief(sp, rep, now) ==
    SpanIsh_add_event_with_timestamp(sp, timestamp(rep, now), attributes_brief(rep))

with_error_status(sp, rep) ==
    SpanIsh_set_status(
        SpanIsh_set_attributes(sp, << <<"error.type", rep.ctx_type>> >>),
        format_current_context(rep))

end_span(sp, rep, now) == SpanIsh_end_with_timestamp(sp, timestamp(rep, now))

on_span_attributes(sp, rep) == SpanIsh_set_attributes(sp, utilities_attributes(rep))

as_span_attributes_brief(sp, rep) ==
    SpanIsh_set_attributes(sp, attributes_brief(rep))

\* The loop of link_child_report_spans, were a report of the current span
\* linked as well.
RECURSIVE link_loop_all(_, _, _, _)
link_loop_all(sp, subs, i, ctx0) ==
    IF i > Len(subs) THEN sp
    ELSE LET ctx == find_attachment(subs[i], "SpanContext")
         IN  link_loop_all(
                 IF ctx # None
                 THEN SpanIsh_add_link(sp, ctx[1].val, attributes_brief(subs[i]))
                 ELSE sp,
                 subs, i + 1, ctx0)

\* The loop of link_child_report_spans over iter_reports().
RECURSIVE link_loop(_, _, _, _)
link_loop(sp, subs, i, ctx0) ==
    IF i > Len(subs) THEN sp
    ELSE LET ctx == find_attachment(subs[i], "SpanContext")
         IN  link_loop(
                 IF ctx # None /\ ctx[1].val # ctx0
                 THEN SpanIsh_add_link(sp, ctx[1].val, attributes_brief(subs[i]))
                 ELSE sp,
                 subs, i + 1, ctx0)

link_child_report_spans(sp, rep, ctx0) == link_loop(sp, iter_reports(rep), 1, ctx0)

RECURSIVE link_loop_brief(_, _, _, _)
link_loop_brief(sp, subs, i, ctx0) ==
    IF i > Len(subs) THEN sp
    ELSE LET ctx == find_attachment(subs[i], "SpanContext")
         IN  link_loop_brief(
                 IF ctx # None /\ ctx[1].val # ctx0
                 THEN SpanIsh_add_link(sp, ctx[1].val,
                                       << <<"error.type", subs[i].ctx_type>> >>)
                 ELSE sp,
                 subs, i + 1, ctx0)

link_child_report_spans_brief(sp, rep, ctx0) ==
    link_loop_brief(sp, iter_reports(rep), 1, ctx0)

(***************************************************************************)
(* log_event.rs: emit_error_report.  A span context is its number, 0 for   *)
(* one that is not valid; a Severity is its number.                        *)
(***************************************************************************)
is_valid(span_context) == span_context # 0

Severity_Error == 17

Severity_Warn == 13

Severity_name(severity) ==
    CASE severity = Severity_Error -> "ERROR"
      [] severity = Severity_Warn  -> "WARN"
      [] OTHER                     -> "other"

\* emit_error_report, were the severity ERROR whatever the report carries.
emit_error_report_error_only(rep, now, current) ==
    LET sc == find_attachment(rep, "SpanContext")
        span_context == IF sc # None THEN sc[1].val ELSE current
    IN  [event_name         |-> "exception",
         observed_timestamp |-> timestamp(rep, now),
         timestamp          |-> now,
         severity_number    |-> Severity_Error,
         severity_text      |-> Severity_name(Severity_Error),
         trace_context      |-> IF is_valid(span_context) THEN Some(span_context)
                                ELSE None,
         attributes         |-> utilities_attributes(rep)]

\* emit_error_report, were the trace context set whatever the span context.
emit_error_report_any_context(rep, now, current) ==
    LET sv == find_attachment(rep, "Severity")
        severity == IF sv # None THEN sv[1].val ELSE Severity_Error
        sc == find_attachment(rep, "SpanContext")
        span_context == IF sc # None THEN sc[1].val ELSE current
    IN  [event_name         |-> "exception",
         observed_timestamp |-> timestamp(rep, now),
         timestamp          |-> now,
         severity_number    |-> severity,
         severity_text      |-> Severity_name(severity),
         trace_context      |-> Some(span_context),
         attributes         |-> utilities_attributes(rep)]

\* The record that emit_error_report emits; current is the span context of
\* Context::current().span().
emit_error_report(rep, now, current) ==
    LET sv == find_attachment(rep, "Severity")
        severity == IF sv # None THEN sv[1].val ELSE Severity_Error
        sc == find_attachment(rep, "SpanContext")
        span_context == IF sc # None THEN sc[1].val ELSE current
    IN  [event_name         |-> "exception",
         observed_timestamp |-> timestamp(rep, now),
         timestamp          |-> now,
         severity_number    |-> severity,
         severity_text      |-> Severity_name(severity),
         trace_context      |-> IF is_valid(span_context) THEN Some(span_context)
                                ELSE None,
         attributes         |-> utilities_attributes(rep)]

(***************************************************************************)
(* The builder as a state machine: otel_raw(), then configuration calls,   *)
(* then send() or send_to().                                               *)
(***************************************************************************)
ExTypes == {"E1"}

Messages == {"m1"}

Times == {3}

Backtraces == {"Y"}

Customs == {"extra"}

Statuses == {"Unset", "Ok", "Error"}

\* The specs handed to children(..).
ChildSpecs ==
    {set_ex_type(ExceptionEventSpec_default, "Child"),
     recurse(set_ex_type(ExceptionEventSpec_default, "Child"))}

\* The specs handed to config(..).
Incomings ==
    {ExceptionEventSpec_new,
     ExceptionEventSpec_default,
     set_ex_type(ExceptionEventSpec_new, "E2"),
     custom_message(ExceptionEventSpec_new, "m2"),
     timestamp_now(ExceptionEventSpec_new),
     set_timestamp(ExceptionEventSpec_new, 4),
     override_backtrace(ExceptionEventSpec_new, "Z"),
     escaped(ExceptionEventSpec_new, TRUE),
     all_attachments(attachments(ExceptionEventSpec_new)),
     recurse(ExceptionEventSpec_new),
     children(ExceptionEventSpec_default,
              set_ex_type(ExceptionEventSpec_default, "Child"))}

\* ReportWrapper::new
ReportWrapper_new(rep) ==
    [report |-> rep, status |-> "Unset", spec |-> ExceptionEventSpec_default]

Init ==
    /\ report \in Reports
    /\ status = ReportWrapper_new(report).status
    /\ spec = ReportWrapper_new(report).spec
    /\ span = <<>>
    /\ pc = "building"
    /\ hist = <<>>
    /\ prev = spec
    /\ clock = 10
    /\ wrapped = "Report"
    /\ returned = <<>>
    /\ calls = <<>>
    /\ logs = <<>>
    /\ curr_ctx = 1

\* impl_eventconfig_for_builder: self.spec().map(|s| s.op(..)); self
Call(op, fld, arg, s2) ==
    /\ pc = "building"
    /\ Len(hist) < MaxOps
    /\ spec' = s2
    /\ prev' = spec
    /\ hist' = Append(hist, [op |-> op, fld |-> fld, arg |-> arg])
    /\ clock' = clock + 1
    /\ UNCHANGED <<report, status, span, pc>>
    /\ UNCHANGED <<wrapped, returned, calls, logs, curr_ctx>>

Do_ex_type == Call("ex_type", "ex_type", <<>>, ex_type(spec))

Do_set_ex_type ==
    \E v \in ExTypes : Call("set_ex_type", "ex_type", <<v>>, set_ex_type(spec, v))

Do_custom_message ==
    \E m \in Messages :
        Call("custom_message", "custom_message", <<m>>, custom_message(spec, m))

Do_timestamped == Call("timestamped", "timestamp", <<>>, timestamped(spec))

Do_set_timestamp ==
    \E t \in Times :
        Call("set_timestamp", "timestamp", <<t>>, set_timestamp(spec, t))

Do_timestamp_now == Call("timestamp_now", "timestamp", <<>>, timestamp_now(spec))

Do_backtrace == Call("backtrace", "backtrace", <<>>, backtrace(spec))

Do_override_backtrace ==
    \E b \in Backtraces :
        Call("override_backtrace", "backtrace", <<b>>, override_backtrace(spec, b))

Do_escaped ==
    \E b \in BOOLEAN : Call("escaped", "escaped", <<b>>, escaped(spec, b))

Do_add_attacment ==
    \E a \in Customs :
        Call("add_attacment", "attachments", <<a>>, add_attacment(spec, a))

Do_all_attachments ==
    Call("all_attachments", "attachments", <<>>, all_attachments(spec))

Do_attachments == Call("attachments", "attachments", <<>>, attachments(spec))

Do_attachments_of_type_id ==
    \E t \in TypeIds :
        Call("attachments_of_type_id", "attachments", <<t>>,
             attachments_of_type_id(spec, t))

Do_recurse == Call("recurse", "children", <<>>, recurse(spec))

Do_children ==
    \E cs \in ChildSpecs : Call("children", "children", <<cs>>, children(spec, cs))

Do_config ==
    \E in \in Incomings : Call("config", "*", <<in>>, config(spec, in))

\* ReportWrapper::status
Do_status ==
    \E st \in Statuses :
        /\ pc = "building"
        /\ Len(hist) < MaxOps
        /\ status' = st
        /\ prev' = spec
        /\ hist' = Append(hist, [op |-> "status", fld |-> "status", arg |-> <<st>>])
        /\ clock' = clock + 1
        /\ UNCHANGED <<report, spec, span, pc>>
        /\ UNCHANGED <<wrapped, returned, calls, logs, curr_ctx>>

\* ReportWrapper::send, on the span of the current context
Send ==
    /\ pc = "building"
    /\ span' = span \o send(report, status, spec, clock)
    /\ pc' = "sent"
    /\ UNCHANGED <<report, status, spec, hist, prev, clock>>
    /\ returned' = <<"Report", report>>
    /\ UNCHANGED <<wrapped, calls, logs, curr_ctx>>

\* ReportWrapper::send_to, on the span handed in
SendTo ==
    /\ pc = "building"
    /\ span' = span \o send_to(report, status, spec, clock)
    /\ pc' = "sent"
    /\ UNCHANGED <<report, status, spec, hist, prev, clock>>
    /\ returned' = <<"Report", report>>
    /\ UNCHANGED <<wrapped, calls, logs, curr_ctx>>

\* SpanTraitExt::add_exception_event called with a spec of its own, as the
\* crate can: the spec need not come from a ReportWrapper.
AddExceptionEvent ==
    \E s \in Incomings :
        /\ pc = "building"
        /\ hist = <<>>
        /\ spec' = s
        /\ span' = span \o SpanTrait_add_exception_event(report, s, clock)
        /\ pc' = "added"
        /\ UNCHANGED <<report, status, hist, prev, clock>>
        /\ UNCHANGED <<wrapped, returned, calls, logs, curr_ctx>>

\* GranularExceptions(report).record_with_current_span(), on the report as
\* created
RecordGranular ==
    /\ pc = "building"
    /\ hist = <<>>
    /\ span' = span \o record_with_current_span(report, clock)
    /\ pc' = "recorded"
    /\ UNCHANGED <<report, status, spec, hist, prev, clock>>
    /\ UNCHANGED <<wrapped, returned, calls, logs, curr_ctx>>

\* EventBuilder::send of event_builder.rs.  EventConfig::new() has no
\* recursor; build is also run with the children recursor in the list.
BuildSend ==
    \E cfg \in {EventConfig_new, [recursors |-> <<"children">>]} :
        /\ pc = "building"
        /\ hist = <<>>
        /\ span' = span \o EventBuilder_send(cfg, report, clock)
        /\ pc' = "built"
        /\ UNCHANGED <<report, status, spec, hist, prev, clock>>
        /\ UNCHANGED <<wrapped, returned, calls, logs, curr_ctx>>

Next ==
    \/ Do_ex_type
    \/ Do_set_ex_type
    \/ Do_custom_message
    \/ Do_timestamped
    \/ Do_set_timestamp
    \/ Do_timestamp_now
    \/ Do_backtrace
    \/ Do_override_backtrace
    \/ Do_escaped
    \/ Do_add_attacment
    \/ Do_all_attachments
    \/ Do_attachments
    \/ Do_attachments_of_type_id
    \/ Do_recurse
    \/ Do_children
    \/ Do_config
    \/ Do_status
    \/ Send
    \/ SendTo
    \/ AddExceptionEvent
    \/ RecordGranular
    \/ BuildSend

Spec == Init /\ [][Next]_vars

(***************************************************************************)
(* The builder around a Result: otel_raw() on a Result<X, Report>, then    *)
(* configuration calls and status(), then send() or send_to().  With Ok(x) *)
(* there is no ReportWrapper: report, status and spec are not read.        *)
(***************************************************************************)
\* <Result<X, ReportWrapper> as ExceptionEventBuilder>::spec: Ok(_) => todo!()
Result_spec_panics(w) == w = "Ok"

\* What one configuration call of impl_eventconfig_for_builder makes of s.
ConfigCalls(s) ==
    {ex_type(s), timestamped(s), backtrace(s), recurse(s), timestamp_now(s),
     attachments(s), all_attachments(s)}
        \cup {set_ex_type(s, v) : v \in ExTypes}
        \cup {set_timestamp(s, t) : t \in Times}
        \cup {override_backtrace(s, b) : b \in Backtraces}
        \cup {custom_message(s, m) : m \in Messages}
        \cup {escaped(s, b) : b \in BOOLEAN}
        \cup {children(s, cs) : cs \in ChildSpecs}

InitResult ==
    /\ report \in Reports
    /\ wrapped \in {"Ok", "Err"}
    /\ status = ReportWrapper_new(report).status
    /\ spec = ReportWrapper_new(report).spec
    /\ span = <<>>
    /\ pc = "building"
    /\ hist = <<>>
    /\ prev = spec
    /\ clock = 10
    /\ returned = <<>>
    /\ calls = <<>>
    /\ logs = <<>>
    /\ curr_ctx = 1

\* impl_eventconfig_for_builder on the Result: self.spec().map(|s| s.op(..))
Result_config ==
    \E s2 \in ConfigCalls(spec) :
        /\ pc = "building"
        /\ Len(hist) < MaxOps
        /\ IF Result_spec_panics(wrapped)
           THEN /\ pc' = "panicked"
                /\ UNCHANGED <<spec, prev>>
           ELSE /\ spec' = s2
                /\ prev' = spec
                /\ pc' = pc
        /\ hist' = Append(hist, [op |-> "config", fld |-> "*", arg |-> <<>>])
        /\ clock' = clock + 1
        /\ UNCHANGED <<report, status, span>>
        /\ UNCHANGED <<wrapped, returned, calls, logs, curr_ctx>>

\* Result::status: self.map_err(|r| r.status(status))
Result_status ==
    \E st \in Statuses :
        /\ pc = "building"
        /\ Len(hist) < MaxOps
        /\ status' = IF wrapped = "Err" THEN st ELSE status
        /\ prev' = spec
        /\ hist' = Append(hist, [op |-> "status", fld |-> "status", arg |-> <<st>>])
        /\ clock' = clock + 1
        /\ UNCHANGED <<report, spec, span, pc>>
        /\ UNCHANGED <<wrapped, returned, calls, logs, curr_ctx>>

\* Result::send: Ok(x) => Ok(x), Err(r) => Err(r.send())
Result_send ==
    /\ pc = "building"
    /\ span' = IF wrapped = "Err" THEN span \o send(report, status, spec, clock)
               ELSE span
    /\ returned' = IF wrapped = "Err" THEN <<"Err", report>> ELSE <<"Ok", "x">>
    /\ pc' = "sent"
    /\ UNCHANGED <<report, status, spec, hist, prev, clock>>
    /\ UNCHANGED <<wrapped, calls, logs, curr_ctx>>

\* Result::send_to
Result_send_to ==
    /\ pc = "building"
    /\ span' = IF wrapped = "Err" THEN span \o send_to(report, status, spec, clock)
               ELSE span
    /\ returned' = IF wrapped = "Err" THEN <<"Err", report>> ELSE <<"Ok", "x">>
    /\ pc' = "sent"
    /\ UNCHANGED <<report, status, spec, hist, prev, clock>>
    /\ UNCHANGED <<wrapped, calls, logs, curr_ctx>>

NextResult ==
    \/ Result_config
    \/ Result_status
    \/ Result_send
    \/ Result_send_to

SpecResult == InitResult /\ [][NextResult]_vars

(***************************************************************************)
(* RecordErrorReport and emit_error_report: span.record_error_report(&rep) *)
(* followed by a chain of its methods, and logger.emit_error_report(&rep). *)
(***************************************************************************)
\* The number of calls chained on one report.
MaxChain == 3

\* A root of span 1 with a timestamp, a child of span 2 with a leaf below
\* it, and a second child of span 1.
RepLinked ==
    Node("Outer", "outer",
         <<Att("SystemTime", "T1", 1), Att("SpanContext", "00-1", 1)>>,
         <<Node("Inner", "inner",
                <<Att("SpanContext", "00-2", 2), Att("SpanContext", "00-1", 1)>>,
                <<Node("Leaf", "leaf", <<>>, <<>>)>>),
           Node("Side", "side", <<Att("SpanContext", "00-1", 1)>>, <<>>)>>)

\* A leaf with two severities and two timestamps, and no span context.
RepWarn ==
    Node("Warn", "warn",
         <<Att("Severity", "WARN", Severity_Warn), Att("SystemTime", "T2", 2),
           Att("Severity", "ERROR", Severity_Error), Att("SystemTime", "T1", 1)>>,
         <<>>)

\* A leaf with a span context that is not valid, and no timestamp.
RepInvalid ==
    Node("Invalid", "invalid", <<Att("SpanContext", "00-0", 0)>>, <<>>)

LinkReports == {RepBare, RepLinked, RepWarn, RepInvalid}

Contexts == {0, 1, 2}

InitRecord ==
    /\ report \in LinkReports
    /\ curr_ctx \in Contexts
    /\ status = "Unset"
    /\ spec = ExceptionEventSpec_new
    /\ span = <<>>
    /\ pc = "recording"
    /\ hist = <<>>
    /\ prev = spec
    /\ clock = 10
    /\ wrapped = "Report"
    /\ returned = <<>>
    /\ calls = <<>>
    /\ logs = <<>>

\* One method of the chain: the calls it leaves on the span.
Chain(op, sp) ==
    /\ pc = "recording"
    /\ Len(hist) < MaxChain
    /\ calls' = sp
    /\ hist' = Append(hist, [op |-> op, fld |-> "", arg |-> <<clock>>])
    /\ clock' = clock + 1
    /\ UNCHANGED <<report, status, spec, span, pc, prev>>
    /\ UNCHANGED <<wrapped, returned, logs, curr_ctx>>

Do_as_event == Chain("as_event", as_event(calls, report, clock))

Do_as_event_brief == Chain("as_event_brief", as_event_brief(calls, report, clock))

Do_with_error_status == Chain("with_error_status", with_error_status(calls, report))

Do_end_span == Chain("end_span", end_span(calls, report, clock))

Do_on_span_attributes ==
    Chain("on_span_attributes", on_span_attributes(calls, report))

Do_as_span_attributes_brief ==
    Chain("as_span_attributes_brief", as_span_attributes_brief(calls, report))

Do_link_child_report_spans ==
    Chain("link_child_report_spans",
          link_child_report_spans(calls, report, curr_ctx))

Do_link_child_report_spans_brief ==
    Chain("link_child_report_spans_brief",
          link_child_report_spans_brief(calls, report, curr_ctx))

\* logger.emit_error_report(&rep): self.emit(record)
Do_emit_error_report ==
    /\ pc = "recording"
    /\ Len(hist) < MaxChain
    /\ logs' = Append(logs, emit_error_report(report, clock, curr_ctx))
    /\ hist' = Append(hist, [op |-> "emit_error_report", fld |-> "",
                             arg |-> <<clock>>])
    /\ clock' = clock + 1
    /\ UNCHANGED <<report, status, spec, span, pc, prev>>
    /\ UNCHANGED <<wrapped, returned, calls, curr_ctx>>

NextRecord ==
    \/ Do_as_event
    \/ Do_as_event_brief
    \/ Do_with_error_status
    \/ Do_end_span
    \/ Do_on_span_attributes
    \/ Do_as_span_attributes_brief
    \/ Do_link_child_report_spans
    \/ Do_link_child_report_spans_brief
    \/ Do_emit_error_report

SpecRecord == InitRecord /\ [][NextRecord]_vars

(***************************************************************************)
(* What the properties below read from the state.                         *)
(***************************************************************************)
IsEvent(c) == c.call \in {"add_event", "add_event_with_timestamp"}

Events(sp) == SelectSeq(sp, IsEvent)

HasAttr(e, key) == \E i \in 1..Len(e.attrs) : e.attrs[i][1] = key

AttrOf(e, key) ==
    e.attrs[CHOOSE i \in 1..Len(e.attrs) : e.attrs[i][1] = key][2]

\* exception.type as an Option
TypeOf(e) ==
    IF HasAttr(e, "exception.type") THEN Some(AttrOf(e, "exception.type"))
    ELSE None

MessageOf(e) == AttrOf(e, "exception.message")

\* The timestamp the event ends up with: the one handed over, or the clock
\* at the call.
TimeOf(e) == IF e.ts = None THEN e.at ELSE e.ts[1]

Summary(e) == <<TypeOf(e), MessageOf(e), TimeOf(e)>>

Summaries(sp) == [i \in 1..Len(Events(sp)) |-> Summary(Events(sp)[i])]

\* The projection of a report as the specification of the projector states
\* it: the node's own event, then each child projected with the spec that
\* the children field selects.
RECURSIVE project(_, _, _)
RECURSIVE project_kids(_, _, _, _)
project_kids(kids, i, s, now) ==
    IF i > Len(kids) THEN <<>>
    ELSE project(kids[i], s, now) \o project_kids(kids, i + 1, s, now)

project(rep, s, now) ==
    SpanTrait_add_exception_event(rep, s, now)
        \o (CASE s.children = Default  -> <<>>
              [] s.children = Inferred -> project_kids(rep.kids, 1, s, now)
              [] OTHER -> project_kids(rep.kids, 1, s.children[2], now))

RECURSIVE SumOfProjections(_, _, _, _)
SumOfProjections(kids, i, s, now) ==
    IF i > Len(kids) THEN 0
    ELSE Len(project(kids[i], s, now)) + SumOfProjections(kids, i + 1, s, now)

\* All the reports of a tree.
RECURSIVE Nodes(_)
Nodes(rep) == {rep} \cup UNION {Nodes(rep.kids[i]) : i \in 1..Len(rep.kids)}

Recorded(sp, n) == \E i \in 1..Len(sp) : MessageOf(sp[i]) = n.ctx_text

Pos(sp, n) == CHOOSE i \in 1..Len(sp) : MessageOf(sp[i]) = n.ctx_text

\* Every report of the tree has one event, and there is no other event.
OneEventEach(sp, rep) ==
    /\ Len(sp) = Cardinality(Nodes(rep))
    /\ \A n \in Nodes(rep) : Recorded(sp, n)

\* A report's event comes before the events of its descendants.
ParentFirst(sp, rep) ==
    \A n \in Nodes(rep) : \A j \in 1..Len(n.kids) : \A d \in Nodes(n.kids[j]) :
        (Recorded(sp, n) /\ Recorded(sp, d)) => Pos(sp, n) < Pos(sp, d)

\* A report's event comes after the events of its descendants.
ParentLast(sp, rep) ==
    \A n \in Nodes(rep) : \A j \in 1..Len(n.kids) : \A d \in Nodes(n.kids[j]) :
        (Recorded(sp, n) /\ Recorded(sp, d)) => Pos(sp, d) < Pos(sp, n)

\* The events of a child's subtree all come before those of the next
\* sibling's subtree.
SiblingsInOrder(sp, rep) ==
    \A n \in Nodes(rep) : \A j, k \in 1..Len(n.kids) :
        j < k =>
            \A d \in Nodes(n.kids[j]) : \A e \in Nodes(n.kids[k]) :
                (Recorded(sp, d) /\ Recorded(sp, e)) => Pos(sp, d) < Pos(sp, e)

Last == hist[Len(hist)]

Before == hist[Len(hist) - 1]

IsInfer(h) == h.op \in {"ex_type", "timestamped", "backtrace"}

IsSet(h) == h.op \in {"set_ex_type", "set_timestamp", "override_backtrace"}

\* Explicit(v) for the set call h
ExplicitOf(h) ==
    CASE h.op = "set_ex_type"   -> Specific(h.arg[1])
      [] h.op = "set_timestamp" -> Specific(Some(h.arg[1]))
      [] OTHER                  -> Specific(h.arg[1])

Fields ==
    {"ex_type", "custom_message", "timestamp", "backtrace", "escaped",
     "attachments", "children"}

InferAfterSet ==
    /\ Len(hist) >= 2
    /\ IsSet(Before)
    /\ IsInfer(Last)
    /\ Last.fld = Before.fld

(***************************************************************************)
(* C1.  With children = Inferred, sending a report emits the report's own  *)
(* event plus all the events of projecting each child with the same spec:  *)
(* 1 + the sum of the children's event counts.                             *)
(***************************************************************************)
C1_RecurseEmitsChildren ==
    (pc = "sent" /\ spec.children = Inferred) =>
        Len(Events(span)) =
            1 + SumOfProjections(report.kids, 1, spec, clock)

C3_UnsetChildrenOneEvent ==
    (pc = "sent" /\ spec.children = Default) => Len(Events(span)) = 1

C3_Witness ==
    /\ pc = "sent"
    /\ spec.children = Default
    /\ Len(report.kids) = 2
    /\ Len(Events(span)) = 1

(***************************************************************************)
(* C4.  With children = Specific(child_spec), sending a report emits its   *)
(* own event and then every child projected with child_spec, whose own     *)
(* children field decides about the grandchildren.                         *)
(***************************************************************************)
C4_ExplicitChildSpec ==
    (pc = "sent" /\ IsSpecific(spec.children)) =>
        Events(span) = project(report, spec, clock)

(***************************************************************************)
(* C5.  The report IoError "disk full" with timestamp 1 and one child      *)
(* Retry "retrying", sent with ex_type, timestamp and children Inferred,   *)
(* gives two events: (IoError, disk full, 1), (Retry, retrying, now).      *)
(***************************************************************************)
C5_EndToEnd ==
    (/\ pc = "sent"
     /\ report = RepDisk
     /\ spec.ex_type = Inferred
     /\ spec.timestamp = Inferred
     /\ spec.children = Inferred
     /\ spec.custom_message = None) =>
        Summaries(span) =
            << <<Some("IoError"), "disk full", 1>>,
               <<Some("Retry"), "retrying", clock>> >>

C7_InferIdempotentSetWins ==
    Len(hist) >= 2 =>
        /\ (IsInfer(Before) /\ IsInfer(Last) /\ Last.fld = Before.fld) =>
               (spec[Last.fld] = Inferred /\ spec = prev)
        /\ (IsInfer(Before) /\ IsSet(Last) /\ Last.fld = Before.fld) =>
               (prev[Last.fld] = Inferred /\ spec[Last.fld] = ExplicitOf(Last))

C7_Witness ==
    /\ Len(hist) >= 2
    /\ Before.op = "ex_type"
    /\ Last.op = "set_ex_type"
    /\ spec.ex_type = Specific("E1")

(***************************************************************************)
(* C8.  A builder on which no configuration call was made has type-name,   *)
(* timestamp and backtrace unset, and the event it sends has no            *)
(* exception.type, no exception.stacktrace and no explicit timestamp.      *)
(***************************************************************************)
C8_FreshBuilderUnset ==
    (pc = "sent" /\ hist = <<>>) =>
        /\ spec.ex_type = Default
        /\ spec.timestamp = Default
        /\ spec.backtrace = Default
        /\ ~HasAttr(span[1], "exception.type")
        /\ ~HasAttr(span[1], "exception.stacktrace")
        /\ span[1].call = "add_event"

(***************************************************************************)
(* C9.  A builder call changes its own field of the spec and no other      *)
(* field; status() changes no field of the spec.                           *)
(***************************************************************************)
C9_FieldsNotCoupled ==
    Len(hist) >= 1 =>
        /\ Last.fld \in Fields =>
               \A g \in Fields \ {Last.fld} : spec[g] = prev[g]
        /\ Last.op = "status" => spec = prev

C9_Witness ==
    /\ Len(hist) >= 2
    /\ Last.op = "children"
    /\ prev.attachments # <<>>
    /\ spec.attachments = prev.attachments
    /\ spec.children # prev.children

(***************************************************************************)
(* C10.  config(in) leaves every field of the builder's spec unchanged     *)
(* that is unset in in: Default for a tri-state field, None for the        *)
(* message and escaped, the empty list for the attachment actions.         *)
(***************************************************************************)
C10_UnsetFieldsKept ==
    (Len(hist) >= 1 /\ Last.op = "config") =>
        LET in == Last.arg[1]
        IN  /\ \A f \in {"ex_type", "timestamp", "backtrace", "children"} :
                   in[f] = Default => spec[f] = prev[f]
            /\ \A f \in {"custom_message", "escaped"} :
                   in[f] = None => spec[f] = prev[f]
            /\ in.attachments = <<>> => spec.attachments = prev.attachments

C10_Witness ==
    /\ Len(hist) >= 2
    /\ Last.op = "config"
    /\ Last.arg[1].attachments = <<>>
    /\ prev.attachments # <<>>
    /\ Last.arg[1].timestamp = Default
    /\ prev.timestamp # Default
    /\ Last.arg[1].ex_type # Default
    /\ spec.ex_type # prev.ex_type
    /\ spec.attachments = prev.attachments

(***************************************************************************)
(* What the properties on the extras and on the digest read.               *)
(***************************************************************************)
\* The types with a field of their own in the digest.
Reserved == {"SystemTime", "Backtrace", "Location"}

HasType(atts, ty) == \E i \in 1..Len(atts) : atts[i].ty = ty

FirstOfType(atts, i) == \A j \in 1..(i - 1) : atts[j].ty # atts[i].ty

FirstIndex(atts, ty) ==
    CHOOSE i \in 1..Len(atts) : atts[i].ty = ty /\ FirstOfType(atts, i)

\* The texts of the attachments at the indices I, in attachment order.
RECURSIVE TextsAt(_, _, _)
TextsAt(atts, I, i) ==
    IF i > Len(atts) THEN <<>>
    ELSE (IF i \in I THEN <<atts[i].text>> ELSE <<>>) \o TextsAt(atts, I, i + 1)

AllTexts(rep) == TextsAt(rep.atts, 1..Len(rep.atts), 1)

\* exception.extras of an event, empty when the attribute is left out.
Extras(e) ==
    IF HasAttr(e, "exception.extras") THEN AttrOf(e, "exception.extras")
    ELSE <<>>

SentWith(actions) == pc = "sent" /\ spec.attachments = actions

\* One event was made from report and spec.
Emitted == pc \in {"sent", "added"}

InSeq(x, sq) == \E i \in 1..Len(sq) : sq[i] = x

IsPrefix(a, b) == Len(a) <= Len(b) /\ SubSeq(b, 1, Len(a)) = a

\* What one action lists for a report.
OutputOf(rep, a) ==
    CASE a[1] = "All"    -> AllTexts(rep)
      [] a[1] = "OfType" ->
             TextsAt(rep.atts, {i \in 1..Len(rep.atts) : rep.atts[i].ty = a[2]}, 1)
      [] a[1] = "Custom" -> <<a[2]>>
      [] OTHER           -> list_smartly(EventAttachments_from(rep), <<>>)

RECURSIVE Concatenated(_, _, _)
Concatenated(rep, actions, i) ==
    IF i > Len(actions) THEN <<>>
    ELSE OutputOf(rep, actions[i]) \o Concatenated(rep, actions, i + 1)

(***************************************************************************)
(* C11.  Under the Smart action alone the extras are, in attachment order, *)
(* the texts of all attachments except the first SystemTime, the first     *)
(* Backtrace and the first Location.                                       *)
(***************************************************************************)
C11_SmartSkipsFirstReserved ==
    SentWith(<< <<"Smart">> >>) =>
        Extras(span[1]) =
            TextsAt(report.atts,
                    {i \in 1..Len(report.atts) :
                        ~(report.atts[i].ty \in Reserved
                          /\ FirstOfType(report.atts, i))},
                    1)

(***************************************************************************)
(* C12.  Under the Smart action alone every attachment whose type is not   *)
(* SystemTime, Backtrace or Location has its text in the extras, the       *)
(* KeyValue attachments included.                                          *)
(***************************************************************************)
C12_SmartKeepsOtherTypes ==
    SentWith(<< <<"Smart">> >>) =>
        \A i \in 1..Len(report.atts) :
            report.atts[i].ty \notin Reserved =>
                InSeq(report.atts[i].text, Extras(span[1]))

C14_AllListsEverything ==
    SentWith(<< <<"All">> >>) =>
        LET d == EventAttachments_from(report)
        IN  /\ Extras(span[1]) = AllTexts(report)
            /\ Len(Extras(span[1])) = Len(report.atts)
            /\ Len(d.all) = Len(report.atts)
            /\ \A i \in 1..Len(report.atts) :
                   d.all[i] = <<report.atts[i].ty, report.atts[i].text>>

C14_Witness ==
    /\ SentWith(<< <<"All">> >>)
    /\ report = RepTwice
    /\ Extras(span[1]) = <<"T1", "X", "T2">>

(***************************************************************************)
(* C15.  The extras are what each action of the list lists, in the order   *)
(* of the list, one after the other, with nothing taken out: All twice     *)
(* lists every text twice, All and then OfType lists the texts of the      *)
(* type once more.                                                         *)
(***************************************************************************)
C15_ActionsConcatenated ==
    pc = "sent" =>
        /\ Extras(span[1]) = Concatenated(report, spec.attachments, 1)
        /\ spec.attachments = << <<"All">>, <<"All">> >> =>
               Extras(span[1]) = AllTexts(report) \o AllTexts(report)
        /\ \A ty \in TypeIds :
               spec.attachments = << <<"All">>, <<"OfType", ty>> >> =>
                   Extras(span[1]) =
                       AllTexts(report)
                           \o TextsAt(report.atts,
                                      {i \in 1..Len(report.atts) :
                                          report.atts[i].ty = ty}, 1)

C15_Witness ==
    /\ SentWith(<< <<"All">>, <<"OfType", "SystemTime">> >>)
    /\ report = RepTwice
    /\ Extras(span[1]) = <<"T1", "X", "T2", "T1", "T2">>

(***************************************************************************)
(* C16.  The list of attachment actions only grows: attachments(),         *)
(* all_attachments() and attachments_of_type_id() append one action at the *)
(* end, and after any builder call the list before the call is a prefix    *)
(* of the list after it.                                                   *)
(***************************************************************************)
C16_ActionListGrows ==
    Len(hist) >= 1 =>
        /\ IsPrefix(prev.attachments, spec.attachments)
        /\ Last.op = "attachments" =>
               spec.attachments = Append(prev.attachments, <<"Smart">>)
        /\ Last.op = "all_attachments" =>
               spec.attachments = Append(prev.attachments, <<"All">>)
        /\ Last.op = "attachments_of_type_id" =>
               spec.attachments = Append(prev.attachments, <<"OfType", Last.arg[1]>>)
        /\ Last.fld \notin {"attachments", "*"} =>
               spec.attachments = prev.attachments

C16_Witness ==
    /\ Len(hist) = 2
    /\ Before.op = "attachments"
    /\ Last.op = "all_attachments"
    /\ spec.attachments = << <<"Smart">>, <<"All">> >>

(***************************************************************************)
(* C17.  A value set on the spec wins over the one of the attachments:     *)
(* with the backtrace set to Y the event has one exception.stacktrace, Y,  *)
(* whatever backtrace attachment the report has; likewise for a set type   *)
(* name and a set timestamp.                                               *)
(***************************************************************************)
C17_ExplicitOverridesDigest ==
    Emitted =>
        /\ IsSpecific(spec.backtrace) =>
               /\ AttrOf(span[1], "exception.stacktrace") = spec.backtrace[2]
               /\ Cardinality({i \in 1..Len(span[1].attrs) :
                                  span[1].attrs[i][1] = "exception.stacktrace"}) = 1
        /\ IsSpecific(spec.ex_type) =>
               TypeOf(span[1]) = Some(spec.ex_type[2])
        /\ (IsSpecific(spec.timestamp) /\ spec.timestamp[2] # None) =>
               span[1].ts = spec.timestamp[2]

C17_Witness ==
    /\ pc = "sent"
    /\ spec.backtrace = Specific("Y")
    /\ EventAttachments_from(report).backtrace = Some("X")
    /\ AttrOf(span[1], "exception.stacktrace") = "Y"

(***************************************************************************)
(* C18.  exception.type of the event is the type name of the report's      *)
(* context when the type name is Inferred, s when it is Specific(s), and   *)
(* is left out when it is Default.                                         *)
(***************************************************************************)
C18_TypeNameResolution ==
    Emitted =>
        CASE spec.ex_type = Default  -> TypeOf(span[1]) = None
          [] spec.ex_type = Inferred -> TypeOf(span[1]) = Some(report.ctx_type)
          [] OTHER                   -> TypeOf(span[1]) = Some(spec.ex_type[2])

(***************************************************************************)
(* C19.  The timestamp of the event: t for Specific(Some(t)), the clock    *)
(* for Specific(None), the first SystemTime attachment for Inferred when   *)
(* the report has one and the clock otherwise, and no timestamp handed     *)
(* over for Default, so that the span takes the clock.                     *)
(***************************************************************************)
C19_TimestampResolution ==
    Emitted =>
        LET e == span[1]
            d == EventAttachments_from(report)
        IN  CASE spec.timestamp = Default ->
                     e.call = "add_event" /\ e.ts = None /\ TimeOf(e) = clock
              [] spec.timestamp = Inferred /\ d.timestamp = None ->
                     e.ts = None /\ TimeOf(e) = clock
              [] spec.timestamp = Inferred ->
                     e.ts = d.timestamp /\ TimeOf(e) = d.timestamp[1]
              [] spec.timestamp = Specific(None) ->
                     e.ts = Some(clock) /\ TimeOf(e) = clock
              [] OTHER ->
                     e.ts = spec.timestamp[2] /\ TimeOf(e) = spec.timestamp[2][1]

C19_Witness ==
    /\ pc = "sent"
    /\ spec.timestamp = Specific(Some(3))
    /\ EventAttachments_from(report).timestamp = Some(1)
    /\ TimeOf(span[1]) = 3

(***************************************************************************)
(* C20.  The digest keeps the first attachment of each reserved type:      *)
(* timestamp, backtrace and location are those of the first SystemTime,    *)
(* Backtrace and Location in attachment order, and an event sent with the  *)
(* timestamp and the backtrace Inferred carries these.                     *)
(***************************************************************************)
C20_FirstOccurrenceWins ==
    LET atts == report.atts
        d == EventAttachments_from(report)
    IN  /\ d.timestamp = IF HasType(atts, "SystemTime")
                         THEN Some(atts[FirstIndex(atts, "SystemTime")].val)
                         ELSE None
        /\ d.backtrace = IF HasType(atts, "Backtrace")
                         THEN Some(atts[FirstIndex(atts, "Backtrace")].text)
                         ELSE None
        /\ d.location = IF HasType(atts, "Location")
                        THEN Some(atts[FirstIndex(atts, "Location")].text)
                        ELSE None
        /\ (pc = "sent" /\ spec.timestamp = Inferred
                /\ HasType(atts, "SystemTime")) =>
               span[1].ts = Some(atts[FirstIndex(atts, "SystemTime")].val)
        /\ (pc = "sent" /\ spec.backtrace = Inferred
                /\ HasType(atts, "Backtrace")) =>
               AttrOf(span[1], "exception.stacktrace") =
                   atts[FirstIndex(atts, "Backtrace")].text

C20_Witness ==
    /\ pc = "sent"
    /\ report = RepRich
    /\ spec.timestamp = Inferred
    /\ spec.backtrace = Inferred
    /\ span[1].ts = Some(1)
    /\ AttrOf(span[1], "exception.stacktrace") = "X"
    /\ EventAttachments_from(report).location = Some("main.rs:1")

(***************************************************************************)
(* C21.  The event has exactly one exception.message: the custom message   *)
(* when one is set on the spec, the formatted context of the report        *)
(* otherwise.                                                              *)
(***************************************************************************)
C21_OneMessage ==
    Emitted =>
        /\ Cardinality({i \in 1..Len(span[1].attrs) :
                           span[1].attrs[i][1] = "exception.message"}) = 1
        /\ MessageOf(span[1]) =
               IF spec.custom_message # None THEN spec.custom_message[1]
               ELSE report.ctx_text

C21_Witness ==
    /\ Emitted
    /\ spec.custom_message = None
    /\ spec.ex_type = Default
    /\ MessageOf(span[1]) = report.ctx_text

(***************************************************************************)
(* What the properties on RecordErrorReport and emit_error_report read.    *)
(***************************************************************************)
\* The first SpanContext attachment of n is of another span than the
\* current one.
Linkable(n) ==
    /\ HasType(n.atts, "SpanContext")
    /\ n.atts[FirstIndex(n.atts, "SpanContext")].val # curr_ctx

\* The add_link calls made for the report n.
LinksFor(n) ==
    {i \in 1..Len(calls) :
        calls[i].call = "add_link" /\ calls[i].attrs[1][2] = n.ctx_type}

IsLinkOp(h) ==
    h.op \in {"link_child_report_spans", "link_child_report_spans_brief"}

IsTimedOp(h) == h.op \in {"as_event", "as_event_brief", "end_span"}

IsTimedCall(c) == c.call \in {"add_event_with_timestamp", "end_with_timestamp"}

IsEmitOp(h) == h.op = "emit_error_report"

\* The timestamp of a call made at the time now on the report rep.
FirstSystemTimeOr(rep, now) ==
    IF HasType(rep.atts, "SystemTime")
    THEN rep.atts[FirstIndex(rep.atts, "SystemTime")].val
    ELSE now

\* The names of the span calls one method of the chain makes.
RECURSIVE LinkKinds(_, _)
LinkKinds(subs, i) ==
    IF i > Len(subs) THEN <<>>
    ELSE (IF Linkable(subs[i]) THEN <<"add_link">> ELSE <<>>)
             \o LinkKinds(subs, i + 1)

KindsOf(h) ==
    CASE h.op \in {"as_event", "as_event_brief"} -> <<"add_event_with_timestamp">>
      [] h.op = "with_error_status" -> <<"set_attributes", "set_status">>
      [] h.op = "end_span" -> <<"end_with_timestamp">>
      [] h.op \in {"on_span_attributes", "as_span_attributes_brief"} ->
             <<"set_attributes">>
      [] IsLinkOp(h) -> LinkKinds(iter_reports(report), 1)
      [] OTHER -> <<>>

RECURSIVE KindsOfChain(_)
KindsOfChain(i) ==
    IF i > Len(hist) THEN <<>> ELSE KindsOf(hist[i]) \o KindsOfChain(i + 1)

(***************************************************************************)
(* C22.  link_child_report_spans and its brief form add one link for each  *)
(* report of the tree whose first SpanContext attachment is of another     *)
(* span than the current one, with that context, and no link for a report  *)
(* without a SpanContext attachment or with the current span's.            *)
(***************************************************************************)
C22_LinksOnlyOtherSpans ==
    pc = "recording" =>
        LET k == Len(SelectSeq(hist, IsLinkOp))
        IN  /\ \A n \in Nodes(report) :
                   /\ Cardinality(LinksFor(n)) = IF Linkable(n) THEN k ELSE 0
                   /\ \A i \in LinksFor(n) :
                          calls[i].ctx =
                              Some(n.atts[FirstIndex(n.atts, "SpanContext")].val)
            /\ \A i \in 1..Len(calls) :
                   calls[i].call = "add_link" =>
                       /\ calls[i].ctx # Some(curr_ctx)
                       /\ \E n \in Nodes(report) : i \in LinksFor(n)

C22_Witness ==
    /\ pc = "recording"
    /\ report = RepLinked
    /\ curr_ctx = 1
    /\ Len(hist) = 1
    /\ Last.op = "link_child_report_spans"
    /\ Len(calls) = 1
    /\ calls[1].ctx = Some(2)
    /\ calls[1].attrs = attributes_brief(report.kids[1])

C24_TimestampOfReport ==
    pc = "recording" =>
        LET timed == SelectSeq(calls, IsTimedCall)
            ops   == SelectSeq(hist, IsTimedOp)
            emits == SelectSeq(hist, IsEmitOp)
        IN  /\ Len(timed) = Len(ops)
            /\ \A i \in 1..Len(timed) :
                   timed[i].ts = Some(FirstSystemTimeOr(report, ops[i].arg[1]))
            /\ Len(logs) = Len(emits)
            /\ \A i \in 1..Len(logs) :
                   logs[i].observed_timestamp =
                       FirstSystemTimeOr(report, emits[i].arg[1])

C24_Witness ==
    /\ pc = "recording"
    /\ report = RepWarn
    /\ Len(hist) = 3
    /\ hist[1].op = "as_event"
    /\ hist[2].op = "emit_error_report"
    /\ hist[3].op = "end_span"
    /\ calls[1].ts = Some(2)
    /\ calls[2].ts = Some(2)
    /\ logs[1].observed_timestamp = 2

(***************************************************************************)
(* C25.  Around Ok(x), configuration calls and status() followed by send() *)
(* or send_to() do not panic, return Ok(x) and make no call on a span.     *)
(***************************************************************************)
C25_OkNeverPanics ==
    wrapped = "Ok" =>
        /\ pc # "panicked"
        /\ span = <<>>
        /\ pc = "sent" => returned = <<"Ok", "x">>

\* The fields of type Option3.
TriFields == {"ex_type", "timestamp", "backtrace", "children"}

\* What the call h leaves in its field.
ValueOf(h) ==
    CASE h.op \in {"ex_type", "timestamped", "backtrace", "recurse"} -> Inferred
      [] h.op = "set_timestamp" -> Specific(Some(h.arg[1]))
      [] h.op = "timestamp_now" -> Specific(None)
      [] OTHER                  -> Specific(h.arg[1])

(***************************************************************************)
(* C26.  A tri-state field (ex_type, timestamp, backtrace, children) holds *)
(* what the last call on it left, whatever was called on it before, and    *)
(* keeps it when another field is called next.                             *)
(***************************************************************************)
C26_LastWriterWins ==
    Len(hist) >= 1 =>
        /\ Last.fld \in TriFields => spec[Last.fld] = ValueOf(Last)
        /\ (Len(hist) >= 2 /\ Before.fld \in TriFields
                /\ Last.fld \notin {Before.fld, "*"}) =>
               spec[Before.fld] = ValueOf(Before)

C26_Witness ==
    /\ Len(hist) = 2
    /\ Before.op = "children"
    /\ Last.op = "recurse"
    /\ spec.children = Inferred

IsSetStatus(c) == c.call = "set_status"

(***************************************************************************)
(* C27.  send() and send_to() call set_status exactly when a status other  *)
(* than Unset was configured, with that status and after the exception     *)
(* event, and return the report.                                           *)
(***************************************************************************)
C27_StatusAfterEvent ==
    pc = "sent" =>
        /\ Len(SelectSeq(span, IsSetStatus)) = IF status # "Unset" THEN 1 ELSE 0
        /\ Len(Events(span)) = 1
        /\ IsEvent(span[1])
        /\ status # "Unset" =>
               /\ Len(span) = 2
               /\ IsSetStatus(span[2])
               /\ span[2].status = status
        /\ returned = <<"Report", report>>

C27_Witness ==
    /\ pc = "sent"
    /\ status = "Error"
    /\ Len(span) = 2
    /\ IsEvent(span[1])
    /\ span[2].call = "set_status"
    /\ returned = <<"Report", report>>

(***************************************************************************)
(* C28.  The span has received the calls of the chained methods in the     *)
(* order of the chain, each method's calls once per time it was chained:   *)
(* none is missing, joined with an equal earlier one, or dropped after     *)
(* end_span.                                                               *)
(***************************************************************************)
C28_CallsFollowChain ==
    pc = "recording" =>
        [i \in 1..Len(calls) |-> calls[i].call] = KindsOfChain(1)

C28_Witness ==
    /\ pc = "recording"
    /\ Len(hist) = 3
    /\ hist[1].op = "end_span"
    /\ hist[2].op = "as_event_brief"
    /\ hist[3].op = "as_event_brief"
    /\ [i \in 1..Len(calls) |-> calls[i].call] =
           <<"end_with_timestamp", "add_event_with_timestamp",
             "add_event_with_timestamp">>

\* The span context emit_error_report resolves.
Resolved ==
    IF HasType(report.atts, "SpanContext")
    THEN report.atts[FirstIndex(report.atts, "SpanContext")].val
    ELSE curr_ctx

(***************************************************************************)
(* C29.  emit_error_report emits one log record per call; the record has   *)
(* a trace context exactly when the resolved span context is valid, the    *)
(* resolved one being the report's first SpanContext attachment, or the    *)
(* current span's when the report has none.                                *)
(***************************************************************************)
C29_TraceContextIffValid ==
    pc = "recording" =>
        /\ Len(logs) = Len(SelectSeq(hist, IsEmitOp))
        /\ \A i \in 1..Len(logs) :
               /\ (logs[i].trace_context # None) <=> is_valid(Resolved)
               /\ is_valid(Resolved) => logs[i].trace_context = Some(Resolved)

C29_Witness ==
    /\ pc = "recording"
    /\ report = RepInvalid
    /\ curr_ctx = 1
    /\ Len(logs) = 1
    /\ logs[1].trace_context = None

\* The values of the fields that only the spec of zold/spec.rs has.
ZoldLocations == {Default, Inferred, Specific("here")}

ZoldExtras == {<<>>, << <<"k", "v">> >>}

(***************************************************************************)
(* C30.  For the report and the spec at hand, the SpanRef and the Span     *)
(* add_exception_event make the same call with the same timestamp and the  *)
(* same attributes, in span.rs and in zold/span.rs.                        *)
(***************************************************************************)
C30_SpanRefEqualsSpan ==
    Emitted =>
        /\ SpanRef_add_exception_event(report, spec, clock) =
               SpanTrait_add_exception_event(report, spec, clock)
        /\ \A loc \in ZoldLocations : \A at \in BOOLEAN : \A ex \in ZoldExtras :
               LET z == zold_ExceptionEventSpec(spec, loc, at, ex)
               IN  zold_SpanRef_add_exception_event(report, z, clock) =
                       zold_SpanTrait_add_exception_event(report, z, clock)
        /\ pc = "sent" => span = send_to(report, status, spec, clock)

C30_Witness ==
    /\ pc = "sent"
    /\ spec.timestamp = Specific(Some(3))
    /\ EventAttachments_from(report).timestamp = Some(1)
    /\ span[1].call = "add_event_with_timestamp"
    /\ span[1].ts = Some(3)
    /\ span = send_to(report, status, spec, clock)

====
